---- MODULE Spec2Model ----
(***************************************************************************)
(* Parameter traversal core of Utils/generator.py (masks, trainable,      *)
(* prunable, parameters, masked_parameters) over a torch module tree, and *)
(* the depth plan of Models/lottery_resnet.py (_plan, ResNet.__init__).   *)
(*                                                                         *)
(* The layer classes (package Layers) are not part of the sources at      *)
(* hand; a layer is described by its kind, its registered parameters, its *)
(* registered buffers and what the attribute `bias` evaluates to.  The    *)
(* name `layers_class` used by trainable/prunable is read as the layer    *)
(* taxonomy that Models/lottery_resnet.py imports under that name.        *)
(***************************************************************************)
EXTENDS Integers, Sequences, FiniteSets, TLC

\* ---------------------------------------------------------------- bounds
MaxModules == 4
MaxSharedModules == 2
MaxRepeatModules == 3
MaxDepth == 40
MaxResNetDepth == 14

Min(a, b) == IF a < b THEN a ELSE b

\* ------------------------------------------------------------ layer kinds
\* A layer: kind (the class isinstance sees), name (attribute name under its
\* parent), params (own registered parameters, in registration order), bias
\* (what `module.bias` evaluates to: "param" the registered bias parameter,
\* "None", or "Missing" when the attribute does not exist) and buffers (own
\* registered buffer names, in registration order).
Layer(k, n, ps, b, bs) ==
    [kind |-> k, name |-> n, params |-> ps, bias |-> b, buffers |-> bs]

Conv2dLayer == Layer("Conv2d", "conv1", <<"weight">>, "None", <<"weight_mask">>)
LinearLayer == Layer("Linear", "fc", <<"weight", "bias">>, "param", <<"weight_mask", "bias_mask">>)
BatchNorm2dNoMask ==
    Layer("BatchNorm2d", "bn", <<"weight", "bias">>, "param", <<"running_mean">>)
BatchNorm1dLayer ==
    Layer("BatchNorm1d", "bn1", <<"weight", "bias">>, "param",
          <<"running_mean", "weight_mask", "bias_mask">>)
Identity2dLayer == Layer("Identity2d", "shortcut", <<"weight">>, "Missing", <<"weight_mask">>)
Identity1dNoParam == Layer("Identity1d", "shortcut", <<>>, "Missing", <<"weight_mask">>)
DenseLinear == Layer("nn.Linear", "fc", <<"weight", "bias">>, "param", <<>>)
Container == Layer("Sequential", "blocks", <<>>, "Missing", <<>>)

LeafLayers ==
    { Conv2dLayer, LinearLayer, BatchNorm2dNoMask, BatchNorm1dLayer,
      Identity2dLayer, Identity1dNoParam, DenseLinear }

Layers == LeafLayers \cup {Container}

\* ---------------------------------------------------------- module trees
\* A tree of n modules: module 1 is the root, parent[i] < i is the parent of
\* module i (0 for the root), children are declared in increasing index.
\* Only containers have children.
RECURSIVE Trees(_)
Trees(n) ==
    IF n = 1 THEN { [parent |-> <<0>>, layer |-> <<l>>] : l \in Layers }
    ELSE UNION { { [parent |-> Append(t.parent, p), layer |-> Append(t.layer, l)] :
                     p \in { i \in 1..(n - 1) : t.layer[i] = Container }, l \in Layers } :
                 t \in Trees(n - 1) }

Models == UNION { Trees(n) : n \in 1..MaxModules }

\* ------------------------------------------------------------------ state
VARIABLES
    model,    \* the module tree, built once
    gen,      \* the call in progress or last made
    prev,     \* the last completed call with the same arguments as gen, if any
    gens,     \* the generators held by the optimizer setup and by the pruner
    maskval,  \* the content of every mask buffer: 1 as built, 0 once pruned
    resnet    \* a ResNet being built: depth asked, width, plan, blocks

vars == <<model, gen, prev, gens, maskval, resnet>>

\* ------------------------------------------------- torch.nn.Module walks
RECURSIVE NamedModules(_, _), WalkFrom(_, _, _)
\* model.modules(): the module itself, then each child's subtree, children in
\* declaration order (pre-order, depth first).
NamedModules(t, i) == <<i>> \o WalkFrom(t, i, i + 1)
\* the subtrees of the children of i whose index is at least j
WalkFrom(t, i, j) ==
    IF j > Len(t.parent) THEN <<>>
    ELSE IF t.parent[j] = i THEN NamedModules(t, j) \o WalkFrom(t, i, j + 1)
    ELSE WalkFrom(t, i, j + 1)

RECURSIVE Prefix(_, _, _)
\* the dotted name of module j relative to module `root`, as its components
Prefix(t, root, j) ==
    IF j = root THEN <<>> ELSE Append(Prefix(t, root, t.parent[j]), t.layer[j].name)

\* module.parameters(recurse=False): the module's own parameters
OwnParameters(t, i) ==
    [k \in 1..Len(t.layer[i].params) |-> [owner |-> i, role |-> t.layer[i].params[k]]]

\* module.bias, where the attribute exists
BiasOf(t, i) ==
    IF t.layer[i].bias = "param" THEN [owner |-> i, role |-> "bias"]
    ELSE [owner |-> 0, role |-> "None"]

RECURSIVE Flatten(_)
Flatten(ss) == IF ss = <<>> THEN <<>> ELSE Head(ss) \o Flatten(Tail(ss))

\* module.named_buffers(): every buffer of the subtree with its dotted name
named_buffers(t, root) ==
    LET ms == NamedModules(t, root)
    IN Flatten([k \in 1..Len(ms) |->
           [b \in 1..Len(t.layer[ms[k]].buffers) |->
               [name |-> Append(Prefix(t, root, ms[k]), t.layer[ms[k]].buffers[b]),
                buf |-> [name |-> t.layer[ms[k]].buffers[b], owner |-> ms[k]]]]])

\* "mask" in s, for the attribute and buffer names the layers use
HasMaskSubstring(s) == s \in {"weight_mask", "bias_mask"}

MaskInName_any(name) == TRUE

\* "mask" in name, for a dotted name: "mask" holds no dot, so it lies in one
\* component
MaskInName(name) == \E k \in 1..Len(name) : HasMaskSubstring(name[k])

\* ------------------------------------------------------ Utils/generator.py
RECURSIVE masksFrom(_, _)
masksFrom(nb, k) ==
    IF k > Len(nb) THEN <<>>
    ELSE IF MaskInName(nb[k].name) THEN <<nb[k].buf>> \o masksFrom(nb, k + 1)
    ELSE masksFrom(nb, k + 1)

masks_nonzero(t, module) ==
    SelectSeq(masksFrom(named_buffers(t, module), 1), LAMBDA b : maskval[b] # 0)

\* masks(module), run to exhaustion
masks(t, module) == masksFrom(named_buffers(t, module), 1)

trainable_all(module) == TRUE

trainable(module) == ~(module.kind \in {"Identity1d", "Identity2d"})

prunable_assign(module, batchnorm, residual) ==
    LET isprunable0 == module.kind \in {"Linear", "Conv2d"}
        isprunable1 == IF batchnorm
                       THEN module.kind \in {"BatchNorm1d", "BatchNorm2d"}
                       ELSE isprunable0
        isprunable2 == IF residual
                       THEN module.kind \in {"Identity1d", "Identity2d"}
                       ELSE isprunable1
    IN isprunable2

prunable(module, batchnorm, residual) ==
    LET isprunable0 == module.kind \in {"Linear", "Conv2d"}
        isprunable1 == IF batchnorm
                       THEN isprunable0 \/ module.kind \in {"BatchNorm1d", "BatchNorm2d"}
                       ELSE isprunable0
        isprunable2 == IF residual
                       THEN isprunable1 \/ module.kind \in {"Identity1d", "Identity2d"}
                       ELSE isprunable1
    IN isprunable2

Max(a, b) == IF a < b THEN b ELSE a

Nothing == [name |-> "None", owner |-> 0]

zip_crossed(a, b) ==
    [k \in 1..Min(Len(a), Len(b)) |-> <<a[Min(Len(a), Len(b)) + 1 - k], b[k]>>]

zip_longest(a, b) ==
    [k \in 1..Max(Len(a), Len(b)) |->
        <<IF k <= Len(a) THEN a[k] ELSE Nothing,
          IF k <= Len(b) THEN b[k] ELSE [owner |-> 0, role |-> "None"]>>]

\* zip(a, b): positional pairs up to the shorter length
zip(a, b) == [k \in 1..Min(Len(a), Len(b)) |-> <<a[k], b[k]>>]

\* --------------------------------------------------------- generator objects
\* A call of one of the five functions.  For a generator: the arguments, the
\* position of its loops (mi: index into model.modules(); pi: index into the
\* inner sequence), what it has yielded so far and whether it is suspended
\* ("running"), exhausted ("done") or ended by an exception ("raised").  For a
\* predicate: the arguments and the returned value ("returned").  `abandoned`
\* records that an earlier generator of the same call was dropped after it
\* had yielded something and before it was exhausted.
Generator(op, root, bias, batchnorm, residual) ==
    [bias |-> bias, root |-> root, batchnorm |-> batchnorm, residual |-> residual,
     op |-> op, mi |-> 1, pi |-> 1, out |-> <<>>,
     status |-> "running", value |-> FALSE, abandoned |-> FALSE]

NoCall ==
    [bias |-> FALSE, root |-> 1, batchnorm |-> FALSE, residual |-> FALSE,
     op |-> "none", mi |-> 1, pi |-> 1, out |-> <<>>,
     status |-> "idle", value |-> FALSE, abandoned |-> FALSE]

Signature(g) == <<g.op, g.root, g.bias, g.batchnorm, g.residual>>

Finished(g) == g.status \in {"done", "raised", "returned"}

RECURSIVE masksNext(_, _)
\* next(masks(module)): lines 6-8, up to the next yield or the end
masksNext(t, g) ==
    LET nb == named_buffers(t, g.root)
    IN IF g.pi > Len(nb) THEN [g EXCEPT !.status = "done"]
       ELSE IF MaskInName(nb[g.pi].name)
            THEN [g EXCEPT !.out = Append(@, nb[g.pi].buf), !.pi = @ + 1]
            ELSE masksNext(t, [g EXCEPT !.pi = @ + 1])

RECURSIVE parametersNext(_, _)
\* next(parameters(model)): lines 29-31
parametersNext(t, g) ==
    LET ms == NamedModules(t, g.root)
    IN IF g.mi > Len(ms) THEN [g EXCEPT !.status = "done"]
       ELSE LET ps == OwnParameters(t, ms[g.mi])
            IN IF ~trainable(t.layer[ms[g.mi]]) \/ g.pi > Len(ps)
               THEN parametersNext(t, [g EXCEPT !.mi = @ + 1, !.pi = 1])
               ELSE [g EXCEPT !.out = Append(@, ps[g.pi]), !.pi = @ + 1]

RECURSIVE masked_parametersNext(_, _)
\* next(masked_parameters(model, bias, batchnorm, residual)): lines 37-40
masked_parametersNext(t, g) ==
    LET ms == NamedModules(t, g.root)
    IN IF g.mi > Len(ms) THEN [g EXCEPT !.status = "done"]
       ELSE LET module == ms[g.mi]
                pairs == zip(masks(t, module), OwnParameters(t, module))
            IN IF ~prunable(t.layer[module], g.batchnorm, g.residual) \/ g.pi > Len(pairs)
               THEN masked_parametersNext(t, [g EXCEPT !.mi = @ + 1, !.pi = 1])
               ELSE IF t.layer[module].bias = "Missing"
                    THEN [g EXCEPT !.status = "raised"]
               ELSE IF pairs[g.pi][2] # BiasOf(t, module) \/ g.bias = TRUE
                    THEN [g EXCEPT !.out = Append(@, pairs[g.pi]), !.pi = @ + 1]
               ELSE masked_parametersNext(t, [g EXCEPT !.pi = @ + 1])

\* next(g) on a suspended generator
GenNext(t, g) ==
    CASE g.op = "masks" -> masksNext(t, g)
      [] g.op = "parameters" -> parametersNext(t, g)
      [] g.op = "masked_parameters" -> masked_parametersNext(t, g)

\* every mask buffer of the tree
AllMasks(t) ==
    { [name |-> t.layer[x[1]].buffers[x[2]], owner |-> x[1]] :
        x \in { y \in (1..Len(t.parent)) \X (1..3) :
                  /\ y[2] <= Len(t.layer[y[1]].buffers)
                  /\ HasMaskSubstring(t.layer[y[1]].buffers[y[2]]) } }

Slots == {"optimizer", "pruner"}

NoResNet ==
    [pc |-> "none", D |-> 0, W |-> 0, plan |-> <<>>, blocks |-> <<>>,
     dense_classifier |-> FALSE]

\* The state a built tree is in before any call: masks begin as all-ones.
Built(t) ==
    /\ model = t
    /\ gen = NoCall
    /\ prev = NoCall
    /\ gens = [s \in Slots |-> NoCall]
    /\ maskval = [b \in AllMasks(t) |-> 1]
    /\ resnet = NoResNet

Init == \E t \in Models : Built(t)

\* A first call: nothing is held from before.
Start(g) ==
    /\ gen.status = "idle"
    /\ gen' = g
    /\ prev' = NoCall
    /\ UNCHANGED <<model, gens, maskval, resnet>>

CallMasks ==
    \E m \in 1..Len(model.parent) :
        Start(Generator("masks", m, FALSE, FALSE, FALSE))

CallParameters == Start(Generator("parameters", 1, FALSE, FALSE, FALSE))

CallMaskedParameters ==
    \E b \in BOOLEAN, bn \in BOOLEAN, r \in BOOLEAN :
        Start(Generator("masked_parameters", 1, b, bn, r))

CallTrainable ==
    \E m \in 1..Len(model.parent) :
        Start([Generator("trainable", m, FALSE, FALSE, FALSE) EXCEPT
                 !.status = "returned", !.value = trainable(model.layer[m])])

CallPrunable ==
    \E m \in 1..Len(model.parent), bn \in BOOLEAN, r \in BOOLEAN :
        Start([Generator("prunable", m, FALSE, bn, r) EXCEPT
                 !.status = "returned", !.value = prunable(model.layer[m], bn, r)])

\* One next() on the suspended generator.
Step ==
    /\ gen.status = "running"
    /\ gen' = GenNext(model, gen)
    /\ UNCHANGED <<model, prev, gens, maskval, resnet>>

\* The caller drops the generator or the result.
Release ==
    /\ gen.status # "idle"
    /\ gen' = NoCall
    /\ prev' = NoCall
    /\ UNCHANGED <<model, gens, maskval, resnet>>

Next ==
    \/ CallMasks
    \/ CallParameters
    \/ CallMaskedParameters
    \/ CallTrainable
    \/ CallPrunable
    \/ Step
    \/ Release

Spec == Init /\ [][Next]_vars

\* --------------------------------------------------------- repeated calls
FreshCursor_stale(g) == [mi |-> g.mi, pi |-> g.pi]

\* The position a new generator object starts from: every call builds its own
\* model.modules() / named_buffers() iterator (lines 6, 29, 37).
FreshCursor(g) == [mi |-> 1, pi |-> 1]

\* The same function is called again with the same arguments, whether the
\* call before it was consumed to its end or only in part.
Repeat ==
    /\ gen.status # "idle"
    /\ gen' = IF gen.status = "returned" THEN gen
              ELSE [gen EXCEPT !.mi = FreshCursor(gen).mi, !.pi = FreshCursor(gen).pi,
                               !.out = <<>>, !.status = "running",
                               !.abandoned = @ \/ (gen.status = "running" /\ gen.out # <<>>)]
    /\ prev' = IF Finished(gen) THEN gen ELSE prev
    /\ UNCHANGED <<model, gens, maskval, resnet>>

RepeatModels == UNION { Trees(n) : n \in 1..MaxRepeatModules }

InitRepeat == \E t \in RepeatModels : Built(t)

NextRepeat == Next \/ Repeat

SpecRepeat == InitRepeat /\ [][NextRepeat]_vars

\* ------------------------------------------ traversals sharing one tree
\* The optimizer setup and the pruner each hold a generator over the same
\* tree and advance it in any order; the pruner writes mask contents in place
\* between any two of their steps.
SharedModels == UNION { Trees(n) : n \in 1..MaxSharedModules }

InitShared == \E t \in SharedModels : Built(t)

\* The optimizer setup collects the trainable parameters (or looks at the
\* masks); the pruner walks the masked parameters under its configuration.
Traversals(s) ==
    IF s = "optimizer"
    THEN {Generator("parameters", 1, FALSE, FALSE, FALSE),
          Generator("masks", 1, FALSE, FALSE, FALSE)}
    ELSE { Generator("masked_parameters", 1, b, bn, r) :
             b \in BOOLEAN, bn \in BOOLEAN, r \in BOOLEAN }

\* slot s calls one of the generator functions
Open(s) ==
    /\ gens[s].status = "idle"
    /\ \E g \in Traversals(s) : gens' = [gens EXCEPT ![s] = g]
    /\ UNCHANGED <<model, gen, prev, maskval, resnet>>

\* one next() on the generator of slot s
Advance(s) ==
    /\ gens[s].status = "running"
    /\ gens' = [gens EXCEPT ![s] = GenNext(model, gens[s])]
    /\ UNCHANGED <<model, gen, prev, maskval, resnet>>

\* the pruning step writes the content of one mask in place
PruneWrite ==
    /\ \E b \in DOMAIN maskval, v \in {0, 1} :
          /\ maskval[b] # v
          /\ maskval' = [maskval EXCEPT ![b] = v]
    /\ UNCHANGED <<model, gen, prev, gens, resnet>>

NextShared ==
    \/ \E s \in Slots : Open(s)
    \/ \E s \in Slots : Advance(s)
    \/ PruneWrite

SpecShared == InitShared /\ [][NextShared]_vars

\* ------------------------------------------------- Models/lottery_resnet.py
\* the widths the resnetN / wide_resnetN constructors pass to _plan
Widths == {16, 32}

\* _plan(D, W) raises ValueError('Invalid ResNet depth')
_planRaises(D) == (D - 2) % 3 # 0

\* _plan(D, W), where it returns: three segments of (filters, blocks)
_plan(D, W) ==
    LET d == (D - 2) \div 6
    IN <<<<W, d>>, <<2 * W, d>>, <<4 * W, d>>>>

RECURSIVE SegmentBlocks(_, _, _, _)
\* the Blocks of one segment from block_index on: (f_in, f_out, downsample)
SegmentBlocks(segment_index, block_index, current_filters, segment) ==
    IF block_index >= segment[2] THEN <<>>
    ELSE <<[f_in |-> current_filters, f_out |-> segment[1],
            downsample |-> (segment_index > 0 /\ block_index = 0)]>>
         \o SegmentBlocks(segment_index, block_index + 1, segment[1], segment)

RECURSIVE ResNetBlocks(_, _, _)
\* ResNet.__init__, lines 52-58: the blocks of the segments from segment_index on
ResNetBlocks(plan, segment_index, current_filters) ==
    IF segment_index >= Len(plan) THEN <<>>
    ELSE LET segment == plan[segment_index + 1]
         IN SegmentBlocks(segment_index, 0, current_filters, segment)
            \o ResNetBlocks(plan, segment_index + 1,
                            IF segment[2] > 0 THEN segment[1] ELSE current_filters)

InitPlan ==
    /\ model = [parent |-> <<0>>, layer |-> <<Container>>]
    /\ gen = NoCall
    /\ prev = NoCall
    /\ gens = [s \in Slots |-> NoCall]
    /\ maskval = [b \in AllMasks(model) |-> 1]
    /\ \E D \in 0..MaxDepth, W \in Widths :
          resnet = [pc |-> "call", D |-> D, W |-> W, plan |-> <<>>, blocks |-> <<>>,
                    dense_classifier |-> FALSE]

\* plan = _plan(D, W)
PlanCall ==
    /\ resnet.pc = "call"
    /\ resnet' = IF _planRaises(resnet.D)
                 THEN [resnet EXCEPT !.pc = "ValueError"]
                 ELSE [resnet EXCEPT !.pc = "planned", !.plan = _plan(resnet.D, resnet.W)]
    /\ UNCHANGED <<model, gen, prev, gens, maskval>>

\* ResNet(plan, num_classes, dense_classifier) builds its blocks
BuildBlocks ==
    /\ resnet.pc = "planned"
    /\ resnet' = [resnet EXCEPT !.pc = "built",
                                !.blocks = ResNetBlocks(resnet.plan, 0, resnet.plan[1][1])]
    /\ UNCHANGED <<model, gen, prev, gens, maskval>>

NextPlan == PlanCall \/ BuildBlocks

SpecPlan == InitPlan /\ [][NextPlan]_vars

\* --------------------------------------------- a built ResNet as a module tree
\* layers_class.BatchNorm2d as Block and ResNet use it: affine, with a mask
\* for its weight and one for its bias
BatchNorm2dLayer ==
    Layer("BatchNorm2d", "bn", <<"weight", "bias">>, "param",
          <<"running_mean", "weight_mask", "bias_mask">>)

BlockLayer == Layer("Block", "0", <<>>, "Missing", <<>>)
ResNetLayer == Layer("ResNet", "", <<>>, "Missing", <<>>)

\* the layer registered under attribute name n
Named(l, n) == [l EXCEPT !.name = n]

\* Block.__init__(f_in, f_out, downsample): the Block and its submodules in
\* the order it registers them; the Block is module `at` of the tree and the
\* child named n of module `up`
BlockModules(b, up, at, n) ==
    LET parent == <<up, at, at, at, at>>
        layer == <<Named(BlockLayer, n),
                   Named(Conv2dLayer, "conv1"), Named(BatchNorm2dLayer, "bn1"),
                   Named(Conv2dLayer, "conv2"), Named(BatchNorm2dLayer, "bn2")>>
    IN IF b.downsample \/ b.f_in # b.f_out
       THEN [parent |-> parent \o <<at, at + Len(parent), at + Len(parent)>>,
             layer |-> layer \o <<Named(Container, "shortcut"),
                                  Named(Conv2dLayer, "0"), Named(BatchNorm2dLayer, "1")>>]
       ELSE [parent |-> parent \o <<at>>,
             layer |-> layer \o <<Named(Identity2dLayer, "shortcut")>>]

RECURSIVE BlocksModules(_, _, _, _)
\* nn.Sequential(*blocks): the modules of the blocks from the k-th on, the
\* k-th Block being module `at` and the Sequential module `up`
BlocksModules(blocks, up, k, at) ==
    IF k > Len(blocks) THEN [parent |-> <<>>, layer |-> <<>>]
    ELSE LET b == BlockModules(blocks[k], up, at, ToString(k - 1))
             rest == BlocksModules(blocks, up, k + 1, at + Len(b.parent))
         IN [parent |-> b.parent \o rest.parent, layer |-> b.layer \o rest.layer]

\* ResNet.__init__: conv, bn, blocks, fc registered in that order; with
\* dense_classifier the attribute fc is assigned again, which replaces the
\* module under the name fc where it stands
ResNetTree(blocks, dense_classifier) ==
    LET top == <<ResNetLayer, Named(Conv2dLayer, "conv"),
                 Named(BatchNorm2dLayer, "bn"), Named(Container, "blocks")>>
        bs == BlocksModules(blocks, Len(top), 1, Len(top) + 1)
        t == [parent |-> <<0, 1, 1, 1>> \o bs.parent \o <<1>>,
              layer |-> top \o bs.layer \o <<LinearLayer>>]
    IN IF dense_classifier
       THEN [t EXCEPT !.layer[Len(t.layer)] = DenseLinear]
       ELSE t

\* the depths _plan accepts, up to the bound
ResNetDepths == { D \in 0..MaxResNetDepth : ~_planRaises(D) }

\* a ResNet(plan, num_classes, dense_classifier) after construction
InitResNet ==
    \E D \in ResNetDepths, W \in Widths, dense \in BOOLEAN :
       LET plan == _plan(D, W)
           blocks == ResNetBlocks(plan, 0, plan[1][1])
       IN /\ resnet = [pc |-> "built", D |-> D, W |-> W, plan |-> plan,
                       blocks |-> blocks, dense_classifier |-> dense]
          /\ model = ResNetTree(blocks, dense)
          /\ gen = NoCall
          /\ prev = NoCall
          /\ gens = [s \in Slots |-> NoCall]
          /\ maskval = [b \in AllMasks(model) |-> 1]

SpecResNet == InitResNet /\ [][Next]_vars

\* ======================================================= claims: vocabulary
Modules == 1..Len(model.parent)

Kind(m) == model.layer[m].kind

RECURSIVE PathTo(_, _)
\* the modules from the root down to module j
PathTo(t, j) == IF t.parent[j] = 0 THEN <<j>> ELSE Append(PathTo(t, t.parent[j]), j)

InSubtree(root, j) == \E k \in 1..Len(PathTo(model, j)) : PathTo(model, j)[k] = root

\* i comes strictly before j in depth-first declaration order: i is a proper
\* ancestor of j, or where their paths part the branch of i was declared first
Before(i, j) ==
    LET a == PathTo(model, i)
        b == PathTo(model, j)
    IN \/ Len(a) < Len(b) /\ \A k \in 1..Len(a) : a[k] = b[k]
       \/ \E k \in 1..Min(Len(a), Len(b)) :
             /\ a[k] < b[k]
             /\ \A h \in 1..(k - 1) : a[h] = b[h]

\* position of a role among a module's own parameters; of a buffer name among
\* its own buffers; 0 when absent
ParamPos(m, role) ==
    IF \E k \in 1..Len(model.layer[m].params) : model.layer[m].params[k] = role
    THEN CHOOSE k \in 1..Len(model.layer[m].params) : model.layer[m].params[k] = role
    ELSE 0

BufferPos(m, name) ==
    IF \E k \in 1..Len(model.layer[m].buffers) : model.layer[m].buffers[k] = name
    THEN CHOOSE k \in 1..Len(model.layer[m].buffers) : model.layer[m].buffers[k] = name
    ELSE 0

\* the module's own buffers named as masks, in declaration order
OwnMaskNames(m) == SelectSeq(model.layer[m].buffers, HasMaskSubstring)

MaskPos(m, name) ==
    IF \E k \in 1..Len(OwnMaskNames(m)) : OwnMaskNames(m)[k] = name
    THEN CHOOSE k \in 1..Len(OwnMaskNames(m)) : OwnMaskNames(m)[k] = name
    ELSE 0

IdentityKinds == {"Identity1d", "Identity2d"}
BatchNormKinds == {"BatchNorm1d", "BatchNorm2d"}
WeightKinds == {"Linear", "Conv2d"}

NoRepeats(seq) == \A i, j \in 1..Len(seq) : seq[i] = seq[j] => i = j

Elements(seq) == { seq[k] : k \in 1..Len(seq) }

\* ------------------------------------------------------------------ C3
PrunableTable(kind, batchnorm, residual) ==
    \/ kind \in WeightKinds
    \/ batchnorm /\ kind \in BatchNormKinds
    \/ residual /\ kind \in IdentityKinds

ParamBefore(p, q) ==
    \/ Before(p.owner, q.owner)
    \/ p.owner = q.owner /\ ParamPos(p.owner, p.role) < ParamPos(q.owner, q.role)

SubtreeMasks(root) ==
    { [name |-> x[2], owner |-> x[1]] :
        x \in { y \in Modules \X {"weight_mask", "bias_mask", "running_mean"} :
                  /\ InSubtree(root, y[1])
                  /\ BufferPos(y[1], y[2]) > 0
                  /\ HasMaskSubstring(y[2]) } }

BufferBefore(a, b) ==
    \/ Before(a.owner, b.owner)
    \/ a.owner = b.owner /\ BufferPos(a.owner, a.name) < BufferPos(b.owner, b.name)

\* C5: masks(module) yields the buffers of the subtree of `module` whose name
\* holds "mask" and nothing else, each once, in depth-first declaration
\* order; it never raises, and a subtree without such a buffer gives the empty
\* sequence.
C5_Masks ==
    gen.op = "masks" =>
       /\ gen.status # "raised"
       /\ Elements(gen.out) \subseteq SubtreeMasks(gen.root)
       /\ \A i, j \in 1..Len(gen.out) : i < j => BufferBefore(gen.out[i], gen.out[j])
       /\ gen.status = "done" => Elements(gen.out) = SubtreeMasks(gen.root)

C5_Witness ==
    /\ gen.op = "masks" /\ gen.status = "done"
    /\ Len(gen.out) = 2
    /\ gen.root # 1
    /\ \E m \in Modules : ~InSubtree(gen.root, m) /\ OwnMaskNames(m) # <<>>
    /\ \E m \in Modules : InSubtree(gen.root, m) /\ BufferPos(m, "running_mean") > 0

C5_WitnessEmpty ==
    /\ gen.op = "masks" /\ gen.status = "done"
    /\ gen.out = <<>>
    /\ SubtreeMasks(gen.root) = {}
    /\ \E m \in Modules : InSubtree(gen.root, m) /\ BufferPos(m, "running_mean") > 0

\* ------------------------------------------------------------------ C1
PairBefore(a, b) ==
    \/ Before(a[2].owner, b[2].owner)
    \/ a[2].owner = b[2].owner
         /\ ParamPos(a[2].owner, a[2].role) < ParamPos(b[2].owner, b[2].role)

PairsOf(m) == { k \in 1..Len(gen.out) : gen.out[k][2].owner = m }

Toy ==
    [parent |-> <<0, 1, 1>>, layer |-> <<Container, Conv2dLayer, BatchNorm2dNoMask>>]

HasIdentityWithMask ==
    \E m \in Modules : Kind(m) \in IdentityKinds /\ OwnMaskNames(m) # <<>>

\* C6: in a model with an Identity1d/Identity2d layer that owns a mask,
\* masked_parameters with residual off yields no pair of that layer, and
\* with residual on it ends without raising, having yielded that layer's
\* (mask, parameter) pair if the layer owns a parameter and nothing of that
\* layer otherwise, for either value of bias.
C6_ResidualShortcut ==
    (gen.op = "masked_parameters" /\ HasIdentityWithMask) =>
       /\ ~gen.residual =>
             \A k \in 1..Len(gen.out) : Kind(gen.out[k][2].owner) \notin IdentityKinds
       /\ gen.residual =>
             /\ gen.status # "raised"
             /\ gen.status = "done" =>
                   \A m \in Modules :
                      (Kind(m) \in IdentityKinds /\ OwnMaskNames(m) # <<>>) =>
                         IF model.layer[m].params # <<>>
                         THEN <<[name |-> OwnMaskNames(m)[1], owner |-> m],
                                [owner |-> m, role |-> model.layer[m].params[1]]>>
                                 \in Elements(gen.out)
                         ELSE PairsOf(m) = {}

\* ------------------------------------------------------------------ C2
Retained(m) == PrunableTable(Kind(m), gen.batchnorm, gen.residual)

\* the positions at which module m has both a mask and a parameter
Matched(m) == 1..Min(Len(OwnMaskNames(m)), Len(model.layer[m].params))

PairAt(m, i) ==
    <<[name |-> OwnMaskNames(m)[i], owner |-> m],
      [owner |-> m, role |-> model.layer[m].params[i]]>>

WeightPairs ==
    { PairAt(x[1], x[2]) :
        x \in { y \in Modules \X {1, 2} :
                  /\ Retained(y[1]) /\ y[2] \in Matched(y[1])
                  /\ ~(model.layer[y[1]].bias = "param"
                         /\ model.layer[y[1]].params[y[2]] = "bias") } }

BiasPairs ==
    { PairAt(x[1], x[2]) :
        x \in { y \in Modules \X {1, 2} :
                  /\ Retained(y[1]) /\ y[2] \in Matched(y[1])
                  /\ model.layer[y[1]].bias = "param"
                  /\ model.layer[y[1]].params[y[2]] = "bias" } }

\* C2: once masked_parameters has ended, with bias off no yielded parameter
\* is the bias of its module; every weight pair of every retained module has
\* been yielded whatever bias is; with bias on the yielded pairs are the
\* bias-off pairs and one more pair for each retained module that owns a bias
\* and a mask matching it.
C2_BiasFilter ==
    (gen.op = "masked_parameters" /\ Finished(gen)) =>
       /\ ~gen.bias => Elements(gen.out) \cap BiasPairs = {}
       /\ WeightPairs \subseteq Elements(gen.out)
       /\ NoRepeats(gen.out)
       /\ Elements(gen.out) = IF gen.bias THEN WeightPairs \cup BiasPairs ELSE WeightPairs

\* What holds of the bias filter on the traversals that reach their end: the
\* statement of C2 for a generator that is exhausted without an exception.
BiasFilterWhenExhausted ==
    (gen.op = "masked_parameters" /\ gen.status = "done") =>
       /\ NoRepeats(gen.out)
       /\ Elements(gen.out) = IF gen.bias THEN WeightPairs \cup BiasPairs ELSE WeightPairs

RECURSIVE RunToEnd(_, _)
RunToEnd(t, g) == IF g.status # "running" THEN g ELSE RunToEnd(t, GenNext(t, g))

\* the same call made on its own and consumed to its end
Alone(g) == RunToEnd(model, Generator(g.op, g.root, g.bias, g.batchnorm, g.residual))

IsPrefix(a, b) == Len(a) <= Len(b) /\ \A k \in 1..Len(a) : a[k] = b[k]

AsIfAlone(g) ==
    g.status # "idle" =>
       /\ IsPrefix(g.out, Alone(g).out)
       /\ Finished(g) => (g.out = Alone(g).out /\ g.status = Alone(g).status)

LayerCount == 2 + 2 * Len(resnet.blocks)

\* C10: where _plan(N, W) does not raise, it returns three segments of D
\* blocks each with N = 2 + 6 * D and with W, 2W and 4W filters, and N is the
\* layer count of the network built from that plan.
C10_PlanDepth ==
    /\ resnet.pc \in {"planned", "built"} =>
          /\ Len(resnet.plan) = 3
          /\ resnet.plan[1][1] = resnet.W
          /\ resnet.plan[2][1] = 2 * resnet.W
          /\ resnet.plan[3][1] = 4 * resnet.W
          /\ resnet.plan[2][2] = resnet.plan[1][2]
          /\ resnet.plan[3][2] = resnet.plan[1][2]
          /\ resnet.D = 2 + 6 * resnet.plan[1][2]
    /\ resnet.pc = "built" => resnet.D = LayerCount

\* What holds of every depth _plan accepts: the plan has the widths W, 2W,
\* 4W, D = (N - 2) div 6 blocks in each segment, and the network built from
\* it has 2 + 6 * D layers.
PlanShape ==
    /\ resnet.pc \in {"planned", "built"} =>
          /\ Len(resnet.plan) = 3
          /\ \A k \in 1..3 : resnet.plan[k][2] = (resnet.D - 2) \div 6
          /\ resnet.plan[1][1] = resnet.W
          /\ resnet.plan[2][1] = 2 * resnet.W
          /\ resnet.plan[3][1] = 4 * resnet.W
    /\ resnet.pc = "built" => LayerCount = 2 + 6 * resnet.plan[1][2]

\* ------------------------------------------------------------------ C11
IsResNet == Kind(1) = "ResNet"

\* the module the ResNet holds under the name fc
fc == CHOOSE m \in Modules : model.parent[m] = 1 /\ model.layer[m].name = "fc"

\* where a module stands in the declarations: the rank of the ResNet
\* attribute it is under, then the number of its Block, then the rank of the
\* Block attribute it is under
AttributeRank(name) ==
    CASE name = "conv" -> 1 [] name = "bn" -> 2 [] name = "blocks" -> 3
      [] name = "fc" -> 4
      [] name = "conv1" -> 1 [] name = "bn1" -> 2 [] name = "conv2" -> 3
      [] name = "bn2" -> 4 [] name = "shortcut" -> 5
      [] OTHER -> 0

Declared(m) ==
    LET path == PathTo(model, m)
        at(k) == IF k <= Len(path) THEN path[k] ELSE 0
    IN <<IF at(2) = 0 THEN 0 ELSE AttributeRank(model.layer[at(2)].name),
         at(3),
         IF at(4) = 0 THEN 0 ELSE AttributeRank(model.layer[at(4)].name),
         at(5)>>

\* m is declared no later than n
DeclaredUpTo(m, n) ==
    LET a == Declared(m)
        b == Declared(n)
    IN \/ a = b
       \/ \E k \in 1..Len(a) : a[k] < b[k] /\ \A h \in 1..(k - 1) : a[h] = b[h]

InDeclarationOrder(out) ==
    \A i, j \in 1..Len(out) : i < j => DeclaredUpTo(out[i][2].owner, out[j][2].owner)

\* the half of C11 about dense_classifier=True
DenseClassifierUnmasked ==
    (IsResNet /\ resnet.dense_classifier) =>
       /\ Kind(fc) = "nn.Linear"
       /\ OwnMaskNames(fc) = <<>>
       /\ (gen.op = "parameters" /\ gen.status = "done") =>
             {[owner |-> fc, role |-> "weight"], [owner |-> fc, role |-> "bias"]}
                \subseteq Elements(gen.out)
       /\ gen.op = "masked_parameters" =>
             \A k \in 1..Len(gen.out) : gen.out[k][2].owner # fc

\* C11: in a ResNet built with dense_classifier=True, fc is a plain linear
\* layer without masks, parameters(model) run to its end has yielded fc's
\* weight and bias, and masked_parameters yields no pair holding a parameter
\* of fc, whatever bias, batchnorm and residual are; in a ResNet built with
\* dense_classifier=False, fc is a maskable Linear and, once
\* masked_parameters has ended, the last pair it yielded is fc's
\* (weight_mask, weight), the pairs before it being those of the initial conv
\* and of the blocks in declaration order (conv1, bn1, conv2, bn2, shortcut
\* within each block).
C11_DenseClassifier ==
    /\ DenseClassifierUnmasked
    /\ (IsResNet /\ ~resnet.dense_classifier) =>
          /\ Kind(fc) = "Linear"
          /\ (gen.op = "masked_parameters" /\ Finished(gen)) =>
                /\ gen.out # <<>>
                /\ gen.out[Len(gen.out)] = PairAt(fc, 1)
                /\ InDeclarationOrder(gen.out)

\* What holds of the maskable classifier: every pair comes in declaration
\* order; a traversal that is exhausted has ended on fc's weight pair with
\* bias off and on fc's weight pair then its bias pair with bias on; a
\* traversal with residual on in a ResNet with an Identity2d shortcut raises
\* before it reaches fc.
MaskableClassifierLast ==
    (IsResNet /\ ~resnet.dense_classifier /\ gen.op = "masked_parameters") =>
       /\ InDeclarationOrder(gen.out)
       /\ gen.status = "done" =>
             IF gen.bias
             THEN /\ Len(gen.out) >= 2
                  /\ gen.out[Len(gen.out) - 1] = PairAt(fc, 1)
                  /\ gen.out[Len(gen.out)] = PairAt(fc, 2)
             ELSE /\ gen.out # <<>>
                  /\ gen.out[Len(gen.out)] = PairAt(fc, 1)
       /\ (gen.residual /\ \E m \in Modules : Kind(m) = "Identity2d") =>
             /\ gen.status # "done"
             /\ \A k \in 1..Len(gen.out) : gen.out[k][2].owner # fc

\* a traversal of a ResNet with blocks, maskable classifier, default flags,
\* exhausted; one with residual on that has raised; one with bias on exhausted
C11_WitnessDefault ==
    /\ IsResNet /\ ~resnet.dense_classifier /\ resnet.blocks # <<>>
    /\ gen.op = "masked_parameters" /\ gen.status = "done"
    /\ ~gen.bias /\ ~gen.batchnorm /\ ~gen.residual

C11_WitnessRaised ==
    /\ IsResNet /\ ~resnet.dense_classifier
    /\ gen.op = "masked_parameters" /\ gen.status = "raised" /\ gen.residual

C11_WitnessBias ==
    /\ IsResNet /\ ~resnet.dense_classifier /\ resnet.blocks # <<>>
    /\ gen.op = "masked_parameters" /\ gen.status = "done" /\ gen.bias

C11_WitnessDense ==
    /\ IsResNet /\ resnet.dense_classifier /\ resnet.blocks # <<>>
    /\ gen.op = "parameters" /\ gen.status = "done"

====
